---- MODULE Spec2Model ----
(***************************************************************************)
(* A model of stacker's build orchestration (stacker/build.go, doBuild)    *)
(* and of the collaborators it drives: the import resolver (import.go),    *)
(* the build cache, the btrfs-backed storage of named trees and the OCI    *)
(* layout with its named references.                                       *)
(*                                                                         *)
(* One build invocation is a walk of doBuild from top to bottom; every     *)
(* call that can return an error is one step, so that a failure can fall   *)
(* between any two of them.  A kill of the process can fall anywhere: also *)
(* between the calls one step is made of, and between the deferred calls.  *)
(* What survives an invocation (cache store, imports directories, named    *)
(* trees, OCI references) is kept across invocations.                      *)
(*                                                                         *)
(* Spec is the build under failures and interrupts; RevertSpec allows one  *)
(* more invocation on fewer inputs.  CompareSpec, ImportSpec and MergeSpec *)
(* call filesDiffer, Import and the image-configuration merge of doBuild   *)
(* on their own, on inputs drawn from bounded sets.                        *)
(***************************************************************************)
EXTENDS Integers, Sequences, FiniteSets, TLC

VARIABLES
    sf,          \* the parsed stackerfile: layer name -> declaration
    srcFiles,    \* what is on disk (or served) where the imports point to
    flags,       \* command line flags of the running invocation
    pc,          \* position of doBuild
    idx,         \* index in `order` of the layer being built
    result,      \* how the last invocation ended
    defers,      \* deferred calls registered so far (run last-in first-out)
    cachedDesc,  \* local of doBuild: descriptor returned by Lookup
    newPath,     \* local of doBuild: descriptor returned by mutator.Commit
    desc,        \* local of doBuild: LookupManifestDescriptor result
    cache,       \* persisted build cache: set of [key, desc] entries
    importsDir,  \* <StackerDir>/imports/<name>: file name -> what is there
    refs,        \* OCI layout: reference name -> descriptor
    trees,       \* storage: tree name -> tree
    ociExists,   \* the OCI directory exists on disk
    ociOpen,     \* the layout handle is open
    attached,    \* the storage is mounted
    clock,       \* time.Now(), counted in commits
    log,         \* calls the running invocation has completed, in order
    prev,        \* summary of the last invocation that ended
    builds,      \* invocations started
    failures,    \* failures and interrupts injected
    call         \* a call made on its own: its arguments and what it returned

vars == <<sf, srcFiles, flags, pc, idx, result, defers, cachedDesc, newPath,
          desc, cache, importsDir, refs, trees, ociExists, ociOpen, attached,
          clock, log, prev, builds, failures, call>>

-----------------------------------------------------------------------------
(* Bounds *)

MaxBuilds == 2
MaxFailures == 1
MaxRunVersion == 1
MaxContent == 1
MaxByte == 1
MaxSize == 2
MaxCalls == 2
MaxRevertBuilds == 3

-----------------------------------------------------------------------------
(* The stackerfile *)

Layers == {"A", "B", "C"}

\* sf.DependencyOrder(): A is built on a base image, B on A, C on B.
order == <<"A", "B", "C">>

BuiltType == "built"
DockerType == "docker"

From(name) ==
    CASE name = "A" -> [Type |-> DockerType, Tag |-> "base"]
      [] name = "B" -> [Type |-> BuiltType, Tag |-> "A"]
      [] name = "C" -> [Type |-> BuiltType, Tag |-> "B"]

\* The import specifications of a layer: B imports one local file.
ImportsOf(name) == IF name = "B" THEN <<"data.txt">> ELSE <<>>

\* The local files the stackerfile's imports name, and the versions of their
\* content that come up between invocations.
Files == {"data.txt"}
Contents == 0..MaxContent
RunVersions == 0..MaxRunVersion

\* Where the rsync binary is looked for.
RsyncPath == "/usr/bin/rsync"

\* config.StackerDir, the directory the imports directories are made in.
StackerDir == ".stacker"

\* Every location an import specification can resolve to: local paths, a
\* remote URL, and a path below the rootfs of a built layer; the place of
\* the rsync binary; and the stacker directory.
Paths ==
    Files \cup {"other.bin", "http://host/remote.bin",
                "rootfs/A/rootfs/out.bin", RsyncPath, StackerDir}

\* What is found at a path: nothing, a regular file with its bytes, a
\* symlink with its target string and the bytes of the file it resolves to,
\* or a directory with the files in it (`files`) and the size the file
\* system reports for it (`dirsize`).
Absent ==
    [kind |-> "absent", bytes |-> <<>>, link |-> <<>>, dirsize |-> 0,
     files |-> {}]
Regular(b) ==
    [kind |-> "file", bytes |-> b, link |-> <<>>, dirsize |-> 0, files |-> {}]
Symlink(t, b) ==
    [kind |-> "symlink", bytes |-> b, link |-> t, dirsize |-> 0, files |-> {}]
Directory(fs, n) ==
    [kind |-> "dir", bytes |-> <<>>, link |-> <<>>, dirsize |-> n, files |-> fs]

\* A file of a directory: its name and its bytes.
TreeFile(name, b) == [name |-> name, bytes |-> b]

\* Version c of the content of a local file.
FileWith(c) == Regular(<<c>>)

\* The size of one block, which many file systems report for a directory.
DirBlock == 4096

\* What is on disk where the imports point to, given the content versions
\* of the local files: no directory is among them, and rsync is not there.
DiskWith(files) ==
    [p \in Paths |->
        CASE p \in Files -> FileWith(files[p])
          [] p = StackerDir -> Directory({}, DirBlock)
          [] OTHER -> Absent]

\* The file names an imports directory can hold.
BaseNames == {"data.txt", "other.bin", "remote.bin", "out.bin"}

EmptyDir == [f \in BaseNames |-> Absent]

\* A layer declaration; `Run` stands for the text of the run commands.
Layer(name, run, buildOnly) ==
    [From |-> From(name), Import |-> ImportsOf(name), Run |-> run,
     BuildOnly |-> buildOnly]

\* The stackerfiles an invocation may be given: the run commands of A come in
\* several versions, B and C may each be marked build-only.
Stackerfiles ==
    { [n \in Layers |-> Layer(n, IF n = "A" THEN rv ELSE 0,
                                 IF n = "A" THEN FALSE ELSE bo[n])] :
        rv \in RunVersions, bo \in [{"B", "C"} -> BOOLEAN] }

-----------------------------------------------------------------------------
(* Descriptors, trees *)

\* ispec.Descriptor{}: the sentinel stored for build-only layers.
EmptyDescriptor == [kind |-> "empty", fs |-> <<>>, t |-> 0]
\* No reference under that name in the layout.
NoRef == [kind |-> "none", fs |-> <<>>, t |-> 0]
\* The manifest of the base image that GetBaseLayer fetches.
BaseDescriptor == [kind |-> "base", fs |-> <<>>, t |-> 0]

NoTree == [exists |-> FALSE, fs |-> <<>>, mtrees |-> {}, meta |-> NoRef]
EmptyTree == [exists |-> TRUE, fs |-> <<>>, mtrees |-> {}, meta |-> NoRef]

Working == ".working"
TreeNames == Layers \cup {Working}

-----------------------------------------------------------------------------
(* import.go *)

\* os.Lstat and os.Stat of what is at a path whose base name is `name`: Stat
\* follows a symlink and reports the file it resolves to, Lstat reports the
\* link itself, whose size is the length of its target string.  The size of
\* a directory is what the file system reports for it.
Lstat(name, e) ==
    [name |-> name, symlink |-> e.kind = "symlink", dir |-> e.kind = "dir",
     size |-> CASE e.kind = "symlink" -> Len(e.link)
                [] e.kind = "dir" -> e.dirsize
                [] OTHER -> Len(e.bytes)]

Stat(name, e) ==
    [name |-> name, symlink |-> FALSE, dir |-> e.kind = "dir",
     size |-> IF e.kind = "dir" THEN e.dirsize ELSE Len(e.bytes)]

NoError == "nil"
NameError == "comparing files without the same name?"
SymlinkError == "symlink -> not symlink not supported"
SchemeError == "unsupported url scheme"
StatError == "no such file or directory"
IsDirError == "is a directory"
CpError == "cp: cannot overwrite non-directory with directory"

\* equalfile's CompareReader: the two streams are read to their ends and
\* are equal iff they have the same length and the same byte at every place.
CompareReader(b1, b2) ==
    /\ Len(b1) = Len(b2)
    /\ \A i \in 1..Len(b1) : b1[i] = b2[i]

\* A comparison that trusts equal sizes and does not read the content.
filesDiffer_SizeOnly(p1, info1, p2, info2) ==
    IF info1.name # info2.name
    THEN [differ |-> FALSE, err |-> NameError, opened |-> FALSE]
    ELSE IF info1.symlink
    THEN IF info2.symlink
         THEN [differ |-> p1.link # p2.link, err |-> NoError, opened |-> FALSE]
         ELSE [differ |-> FALSE, err |-> SymlinkError, opened |-> FALSE]
    ELSE [differ |-> info1.size # info2.size, err |-> NoError, opened |-> FALSE]

\* A comparison of symlinks by the files they resolve to.
filesDiffer_FollowsLinks(p1, info1, p2, info2) ==
    IF info1.name # info2.name
    THEN [differ |-> FALSE, err |-> NameError, opened |-> FALSE]
    ELSE IF info1.symlink /\ ~info2.symlink
    THEN [differ |-> FALSE, err |-> SymlinkError, opened |-> FALSE]
    ELSE IF ~info1.symlink /\ info1.size # info2.size
    THEN [differ |-> TRUE, err |-> NoError, opened |-> FALSE]
    ELSE [differ |-> ~CompareReader(p1.bytes, p2.bytes), err |-> NoError,
          opened |-> TRUE]

\* filesDiffer(p1, info1, p2, info2): p1 and p2 are what is at the two
\* paths, info1 and info2 the FileInfo the caller obtained for them.
\* `opened` tells whether the contents were opened and read.  A directory
\* can be opened, but reading it is an error, which CompareReader hands on.
filesDiffer(p1, info1, p2, info2) ==
    IF info1.name # info2.name
    THEN [differ |-> FALSE, err |-> NameError, opened |-> FALSE]
    ELSE IF info1.symlink
    THEN IF info2.symlink
         THEN [differ |-> p1.link # p2.link, err |-> NoError, opened |-> FALSE]
         ELSE [differ |-> FALSE, err |-> SymlinkError, opened |-> FALSE]
    ELSE IF info1.size # info2.size
    THEN [differ |-> TRUE, err |-> NoError, opened |-> FALSE]
    ELSE IF p1.kind = "dir" \/ p2.kind = "dir"
    THEN [differ |-> FALSE, err |-> IsDirError, opened |-> TRUE]
    ELSE [differ |-> ~CompareReader(p1.bytes, p2.bytes), err |-> NoError,
          opened |-> TRUE]

\* net/url's Parse on the import specifications in use.
UrlParse(i) ==
    CASE i = "http://host/remote.bin" ->
           [Scheme |-> "http", Host |-> "host", Path |-> "/remote.bin"]
      [] i = "stacker://A/out.bin" ->
           [Scheme |-> "stacker", Host |-> "A", Path |-> "/out.bin"]
      [] i = "ftp://host/x.bin" ->
           [Scheme |-> "ftp", Host |-> "host", Path |-> "/x.bin"]
      [] OTHER -> [Scheme |-> "", Host |-> "", Path |-> i]

\* path.Base of the paths in use.
Base(p) ==
    CASE p = "http://host/remote.bin" -> "remote.bin"
      [] p = "rootfs/A/rootfs/out.bin" -> "out.bin"
      [] OTHER -> p

\* path.Join(c.RootFSDir, url.Host, "rootfs", url.Path)
RootFSPath(url) ==
    CASE url.Host = "A" /\ url.Path = "/out.bin" -> "rootfs/A/rootfs/out.bin"

\* What an acquisition reports: whether it succeeded, the imports directory
\* it leaves, and the fileCopy calls and downloads it made.
Acquired(dir, copies, fetches) ==
    [ok |-> TRUE, dir |-> dir, copies |-> copies, fetches |-> fetches,
     err |-> NoError]
NotAcquired(dir, err) ==
    [ok |-> FALSE, dir |-> dir, copies |-> 0, fetches |-> 0, err |-> err]

\* fileCopy(dest, source), given what is at the two paths; it yields what is
\* at the destination afterwards and the error returned.  os.Open of the
\* source fails when nothing is there; os.Create fails on a directory, and
\* otherwise truncates the destination (through a symlink, which stays);
\* io.Copy then reads the source to its end, which fails when the source is
\* a directory.
fileCopy(dest, source) ==
    LET created(b) == IF dest.kind = "symlink" THEN Symlink(dest.link, b)
                      ELSE Regular(b)
    IN  IF source.kind = "absent" THEN [entry |-> dest, err |-> StatError]
        ELSE IF dest.kind = "dir" THEN [entry |-> dest, err |-> IsDirError]
        ELSE IF source.kind = "dir"
        THEN [entry |-> created(<<>>), err |-> IsDirError]
        ELSE [entry |-> created(source.bytes), err |-> NoError]

\* haveRsync() == nil: the rsync binary is there.
haveRsync == srcFiles[RsyncPath].kind # "absent"

\* The size in bytes a directory with the files `fs` reports below the
\* stacker directory.  It is given by the file system the stacker directory
\* is on, not by the source of a copy.  Two file systems are told apart by
\* what the stacker directory itself reports: one where a directory of the
\* few entries in use here takes one block (ext4), and tmpfs, where it
\* reports 20 bytes for each entry, "." and ".." included.
CacheDirSize(fs) ==
    IF srcFiles[StackerDir].dirsize = DirBlock THEN DirBlock
    ELSE 40 + 20 * Cardinality(fs)

\* The files of a directory after the files `new` were written into it: a
\* file of the same name is replaced, every other file stays.
Overwrite(old, new) ==
    {f \in old : \A g \in new : g.name # f.name} \cup new

\* `rsync -a imp cacheDir` or `cp -a imp cacheDir` for a directory `src`,
\* given what is in the cache directory under its name: both make a new
\* directory when nothing is there and copy into a directory that is there,
\* where the files the source does not have stay; with a non-directory in
\* the way rsync removes it and makes the copy, cp gives up.
CopyTree(binary, src, old) ==
    IF old.kind = "dir"
    THEN LET fs == Overwrite(old.files, src.files)
         IN  [entry |-> Directory(fs, CacheDirSize(fs)), err |-> NoError]
    ELSE IF old.kind = "absent" \/ binary = "rsync"
    THEN [entry |-> Directory(src.files, CacheDirSize(src.files)),
          err |-> NoError]
    ELSE [entry |-> old, err |-> CpError]

\* An import that copies only when the destination is absent.
importFile_NeverRefreshes(imp, dir) ==
    LET src == srcFiles[imp]
        dest == Base(imp)
    IN  IF src.kind = "absent" THEN NotAcquired(dir, StatError)
        ELSE IF dir[dest].kind = "absent"
        THEN Acquired([dir EXCEPT ![dest] = fileCopy(dir[dest], src).entry], 1, 0)
        ELSE Acquired(dir, 0, 0)

\* importFile: a directory is handed to rsync or cp; a file is copied when
\* the destination is absent or differs from it.  A fileCopy that fails has
\* still been called, and counts.
importFile(imp, dir) ==
    LET src == srcFiles[imp]
        dest == Base(imp)
        e1 == Stat(Base(imp), src)
        binary == IF haveRsync THEN "rsync" ELSE "cp"
        tree == CopyTree(binary, src, dir[dest])
        differ == filesDiffer(src, e1, dir[dest], Stat(dest, dir[dest]))
        needsCopy == dir[dest].kind = "absent" \/ differ.differ
        copy == fileCopy(dir[dest], src)
    IN  IF src.kind = "absent" THEN NotAcquired(dir, StatError)
        ELSE IF e1.dir
        THEN IF tree.err # NoError THEN NotAcquired(dir, tree.err)
             ELSE Acquired([dir EXCEPT ![dest] = tree.entry], 0, 0)
        ELSE IF dir[dest].kind # "absent" /\ differ.err # NoError
        THEN NotAcquired(dir, differ.err)
        ELSE IF ~needsCopy THEN Acquired(dir, 0, 0)
        ELSE IF copy.err # NoError
        THEN [NotAcquired([dir EXCEPT ![dest] = copy.entry], copy.err)
                 EXCEPT !.copies = 1]
        ELSE Acquired([dir EXCEPT ![dest] = copy.entry], 1, 0)

\* download: the file is fetched again on every call and overwrites the
\* destination.
download(dir, i) ==
    IF srcFiles[i].kind = "absent" THEN NotAcquired(dir, "download failed")
    ELSE Acquired([dir EXCEPT ![Base(i)] = Regular(srcFiles[i].bytes)], 0, 1)

\* acquireUrl
acquireUrl(i, dir) ==
    LET url == UrlParse(i)
    IN  IF url.Scheme = "" THEN importFile(i, dir)
        ELSE IF url.Scheme = "http" \/ url.Scheme = "https" THEN download(dir, i)
        ELSE IF url.Scheme = "stacker" THEN importFile(RootFSPath(url), dir)
        ELSE NotAcquired(dir, SchemeError)

\* The state of the loop of Import: the directory so far, the calls counted,
\* and the specifications acquired so far.
ImportStart(dir) ==
    [ok |-> TRUE, dir |-> dir, copies |-> 0, fetches |-> 0, err |-> NoError,
     acquired |-> <<>>]

\* A loop that goes on to the next specification after a failure.
RECURSIVE ImportFrom_SkipsFailures(_, _, _)
ImportFrom_SkipsFailures(imports, i, acc) ==
    IF i > Len(imports) THEN acc
    ELSE LET r == acquireUrl(imports[i], acc.dir)
         IN  IF r.ok
             THEN ImportFrom_SkipsFailures(imports, i + 1,
                      [acc EXCEPT !.dir = r.dir, !.copies = @ + r.copies,
                                  !.fetches = @ + r.fetches,
                                  !.acquired = Append(@, imports[i])])
             ELSE ImportFrom_SkipsFailures(imports, i + 1,
                      [acc EXCEPT !.ok = FALSE, !.err = r.err])

\* Import: the specifications are acquired in list order, the first failure
\* ends the loop.
RECURSIVE ImportFrom(_, _, _)
ImportFrom(imports, i, acc) ==
    IF i > Len(imports) THEN acc
    ELSE LET r == acquireUrl(imports[i], acc.dir)
         IN  IF r.ok
             THEN ImportFrom(imports, i + 1,
                      [acc EXCEPT !.dir = r.dir, !.copies = @ + r.copies,
                                  !.fetches = @ + r.fetches,
                                  !.acquired = Append(@, imports[i])])
             ELSE [acc EXCEPT !.ok = FALSE, !.err = r.err, !.dir = r.dir,
                              !.copies = @ + r.copies,
                              !.fetches = @ + r.fetches]

Import(name, imports) == ImportFrom(imports, 1, ImportStart(importsDir[name]))

\* What a process killed while an entry of the imports directory was being
\* written can leave in its place: what was there before, or the new entry
\* with any part of its content (the destination is truncated first).
Partial(old, new) ==
    {old} \cup {[new EXCEPT !.bytes = SubSeq(new.bytes, 1, k)] :
                   k \in 0..Len(new.bytes)}

\* What cp or rsync can leave of the copy of a directory when it does not
\* get to its end, because the process is killed (`killed`) or because
\* writes fail: what was there, or a directory in which files that were
\* there stand beside files of the source.  cp truncates a file and then
\* writes it, also when it is the same as the source's.  Killed, it leaves
\* any of the source's files complete (they are taken in the order the
\* source directory is read in) and at most one more with a part of its
\* bytes only.  After a write that fails it goes on with the next file and
\* exits with an error at the end, so every file of the source can be
\* untouched, or there with any part of its bytes.  rsync puts each file in
\* place when it is complete, and first removes a non-directory that is in
\* the way.
CopyTree_Stopped(binary, src, old, killed) ==
    LET r == CopyTree(binary, src, old)
        before == IF old.kind = "dir" THEN old.files ELSE {}
        gone == IF old.kind \notin {"dir", "absent"} THEN {Absent} ELSE {}
        parts(f) ==
            {{TreeFile(f.name, SubSeq(f.bytes, 1, k))} : k \in 0..Len(f.bytes)}
        oneByOne ==
            UNION {{Overwrite(before, done \cup part) :
                       part \in {{}} \cup
                                (IF binary = "cp"
                                 THEN UNION {parts(f) : f \in src.files \ done}
                                 ELSE {})} :
                      done \in SUBSET src.files}
        eachFile ==
            {Overwrite(before, UNION {c[f] : f \in src.files}) :
                c \in {c \in [src.files ->
                                {{}} \cup UNION {parts(f) : f \in src.files}] :
                          \A f \in src.files : c[f] \in {{}} \cup parts(f)}}
        written == IF killed \/ binary = "rsync" THEN oneByOne ELSE eachFile
    IN  IF r.err # NoError THEN {old}
        ELSE {old} \cup gone \cup
             {Directory(fs, CacheDirSize(fs)) : fs \in written}

\* The directories importFile(imp, dir) can leave when it is cut short by a
\* kill or by a call of the system that fails: nothing is written unless
\* the tree is copied or fileCopy has created the destination, which
\* os.Create truncates before Chmod or io.Copy can fail.
importFile_Stopped(imp, dir, killed) ==
    LET src == srcFiles[imp]
        dest == Base(imp)
        binary == IF haveRsync THEN "rsync" ELSE "cp"
        r == importFile(imp, dir)
        copy == fileCopy(dir[dest], src)
    IN  IF src.kind = "absent" THEN {dir}
        ELSE IF src.kind = "dir"
        THEN {[dir EXCEPT ![dest] = e] :
                 e \in CopyTree_Stopped(binary, src, dir[dest], killed)}
        ELSE IF r.copies = 1 /\ copy.err = NoError
        THEN {[dir EXCEPT ![dest] = e] : e \in Partial(dir[dest], copy.entry)}
        ELSE {dir}

\* The directories download(dir, i) can leave when it is cut short: the file
\* is written again whether or not it has changed.
download_Stopped(dir, i) ==
    LET r == download(dir, i)
    IN  IF ~r.ok THEN {dir}
        ELSE {[dir EXCEPT ![Base(i)] = e] :
                 e \in Partial(dir[Base(i)], r.dir[Base(i)])}

\* The directories acquireUrl(i, dir) can leave when it is cut short.
acquireUrl_Stopped(i, dir, killed) ==
    LET url == UrlParse(i)
    IN  IF url.Scheme = "" THEN importFile_Stopped(i, dir, killed)
        ELSE IF url.Scheme = "http" \/ url.Scheme = "https"
        THEN download_Stopped(dir, i)
        ELSE IF url.Scheme = "stacker"
        THEN importFile_Stopped(RootFSPath(url), dir, killed)
        ELSE {dir}

\* The directories Import can leave when it is cut short: the kill or the
\* failure falls inside one acquisition, after those before it were made.
RECURSIVE ImportFrom_Stopped(_, _, _, _)
ImportFrom_Stopped(imports, i, dir, killed) ==
    IF i > Len(imports) THEN {dir}
    ELSE LET r == acquireUrl(imports[i], dir)
         IN  acquireUrl_Stopped(imports[i], dir, killed) \cup
             (IF r.ok THEN ImportFrom_Stopped(imports, i + 1, r.dir, killed)
              ELSE {r.dir})

Import_Stopped(name, imports, killed) ==
    ImportFrom_Stopped(imports, 1, importsDir[name], killed)

-----------------------------------------------------------------------------
(* The build cache: fingerprint -> descriptor *)

\* The fingerprint of a layer: its declaration and the state of the imports
\* directory handed to the cache.
CacheKey(l, dir) == [layer |-> l, imports |-> dir]

CacheHas(c, l, dir) == \E e \in c : e.key = CacheKey(l, dir)

Lookup(c, l, dir) ==
    IF CacheHas(c, l, dir)
    THEN [ok |-> TRUE, desc |-> (CHOOSE e \in c : e.key = CacheKey(l, dir)).desc]
    ELSE [ok |-> FALSE, desc |-> EmptyDescriptor]

\* Put overwrites whatever was stored for the fingerprint.
Put(c, l, dir, d) ==
    {e \in c : e.key # CacheKey(l, dir)} \cup
        {[key |-> CacheKey(l, dir), desc |-> d]}

\* A lookup keyed on the imports directory of the first layer of the order.
ImportDirOf_FirstLayer(name) == order[1]

\* path.Join(config.StackerDir, "imports", name): the directory of the
\* layer's own imports.
ImportDirOf(name) == name

-----------------------------------------------------------------------------
(* Storage: named trees *)

StDelete(t, name) == [t EXCEPT ![name] = NoTree]

\* Creating or snapshotting onto a name that is still in use does not replace
\* the tree of that name (a btrfs snapshot onto an existing directory lands
\* inside it), which is why doBuild deletes the target first.
StCreate(t, name) ==
    IF t[name].exists THEN t ELSE [t EXCEPT ![name] = EmptyTree]

StCopy(t, source, target) ==
    IF t[target].exists THEN t ELSE [t EXCEPT ![target] = t[source]]

StRestore(t, source, target) == StCopy(t, source, target)
StSnapshot(t, source, target) == StCopy(t, source, target)

-----------------------------------------------------------------------------
(* The log of completed calls *)

NoLayer == "-"

Ev(op, layer, ok) ==
    [op |-> op, layer |-> layer, ok |-> ok, found |-> FALSE,
     key |-> <<>>, desc |-> NoRef]

Cur == order[idx]
L == sf[Cur]

HasBudget == failures < MaxFailures

\* The variables a step leaves alone unless it says otherwise.
inputV == <<sf, srcFiles, flags>>
localV == <<cachedDesc, newPath, desc>>
procV == <<defers, ociOpen, attached>>
ghostV == <<prev, builds>>

\* An error that is recorded but does not leave the loop.
FailAt_Continues(op, layer) ==
    /\ HasBudget
    /\ failures' = failures + 1
    /\ pc' = "import"
    /\ result' = "err"
    /\ log' = Append(log, Ev(op, layer, FALSE))

\* `return err`: the loop is left, the deferred calls are still to run.
FailAt(op, layer) ==
    /\ HasBudget
    /\ failures' = failures + 1
    /\ pc' = "return"
    /\ result' = "err"
    /\ log' = Append(log, Ev(op, layer, FALSE))

\* A call that returned without error.
Done(op, layer) ==
    /\ log' = Append(log, Ev(op, layer, TRUE))
    /\ UNCHANGED failures

\* `continue`, or the end of the loop body: the next layer of the order, or
\* `return nil` after the last one.
Continue ==
    IF idx < Len(order)
    THEN /\ idx' = idx + 1
         /\ pc' = "import"
         /\ UNCHANGED result
    ELSE /\ idx' = idx
         /\ pc' = "return"
         /\ result' = "ok"

-----------------------------------------------------------------------------
(* Digests and bundle metadata *)

Digest(d) == <<"sha256", ":", d>>

\* strings.Replace(digest, ":", "_", 1) + ".mtree"
MtreeName(d) ==
    LET dg == Digest(d)
    IN  <<dg[1], IF dg[2] = ":" THEN "_" ELSE dg[2], dg[3], ".mtree">>

\* A rename that leaves the mtree file under its old name.
updateBundleMtree_NoRename(tree, d) == {tree}

\* updateBundleMtree: the first *.mtree entry of the directory, in the order
\* of the file names, is renamed to the name of the new descriptor; a
\* directory without one is left alone.  Which of several entries comes
\* first depends on the digests in their names, of which nothing is known:
\* the operator yields every tree the call can leave.
updateBundleMtree(tree, d) ==
    IF tree.mtrees = {} THEN {tree}
    ELSE {[tree EXCEPT !.mtrees = (@ \ {first}) \cup {MtreeName(d)}] :
             first \in tree.mtrees}

BaseFS == <<[layer |-> "base", run |-> 0, imports |-> EmptyDir]>>

\* What the run commands of a layer leave in the tree: they see the tree
\* they start from, their own text and the layer's imports.
RunOn(fs, name, l, dir) ==
    Append(fs, [layer |-> name, run |-> l.Run, imports |-> dir])

-----------------------------------------------------------------------------
(* Reading the log *)

Events == 1..Len(log)

\* A call `op` for `layer` has returned without error in this invocation.
Did(op, layer) ==
    \E i \in Events : log[i].op = op /\ log[i].layer = layer /\ log[i].ok

\* The cache lookup of `layer` in this invocation reported not-found / found.
Missed(layer) ==
    \E i \in Events : log[i].op = "Lookup" /\ log[i].layer = layer /\ ~log[i].found
Hit(layer) ==
    \E i \in Events : log[i].op = "Lookup" /\ log[i].layer = layer /\ log[i].found

Puts(layer) ==
    {i \in Events : log[i].op = "Put" /\ log[i].layer = layer /\ log[i].ok}

Position(layer) == CHOOSE i \in 1..Len(order) : order[i] = layer

\* doBuild is at a return statement; its deferred calls are still to run.
Ended == pc = "return"

\* What is remembered of an invocation that ends with result `res`: its
\* inputs, the references it leaves, and the layer that had missed the cache
\* and was being built when an error or an interrupt cut the invocation.
EndSummary(res) ==
    [result |-> res, sf |-> sf, srcFiles |-> srcFiles, refs |-> refs,
     missLayer |-> IF res \in {"err", "killed"} /\ result # "ok" /\ Missed(Cur)
                   THEN Cur ELSE NoLayer]

NoFlags == [noCache |-> FALSE, leaveUnladen |-> FALSE]

\* No call is made on its own while doBuild is what runs.
NoCall == [op |-> "none"]

-----------------------------------------------------------------------------
(* Initial state: nothing was ever built *)

\* Everything but the files the imports refer to.
InitBuild ==
    /\ sf = [n \in Layers |-> Layer(n, 0, FALSE)]
    /\ flags = NoFlags
    /\ pc = "idle"
    /\ idx = 1
    /\ result = "none"
    /\ defers = <<>>
    /\ cachedDesc = EmptyDescriptor
    /\ newPath = EmptyDescriptor
    /\ desc = EmptyDescriptor
    /\ cache = {}
    /\ importsDir = [n \in Layers |-> EmptyDir]
    /\ refs = [n \in Layers |-> NoRef]
    /\ trees = [n \in TreeNames |-> NoTree]
    /\ ociExists = FALSE
    /\ ociOpen = FALSE
    /\ attached = FALSE
    /\ clock = 0
    /\ log = <<>>
    /\ prev = [result |-> "none", sf |-> [n \in Layers |-> Layer(n, 0, FALSE)],
               srcFiles |-> DiskWith([f \in Files |-> 0]),
               refs |-> [n \in Layers |-> NoRef], missLayer |-> NoLayer]
    /\ builds = 0
    /\ failures = 0

Init ==
    /\ InitBuild
    /\ srcFiles = DiskWith([f \in Files |-> 0])
    /\ call = NoCall

-----------------------------------------------------------------------------
(* doBuild, before the loop *)

\* What os.RemoveAll can leave where an entry of an imports directory was
\* when it does not get to its end: the entry, nothing, or a directory with
\* some of its files, whichever the order the directory is read in and the
\* removals that failed have left.
PartlyRemoved(e) ==
    {e, Absent} \cup
        (IF e.kind = "dir"
         THEN {Directory(fs, CacheDirSize(fs)) : fs \in SUBSET e.files}
         ELSE {})

\* What os.RemoveAll(config.StackerDir) can leave of the cache store and of
\* the imports directories: it removes entry by entry, in the order the
\* directory is read in, and goes on after a removal that fails.
RemoveAll_Left ==
    LET dirsOf(n) ==
            {d \in [BaseNames ->
                      UNION {PartlyRemoved(importsDir[n][f]) : f \in BaseNames}] :
                \A f \in BaseNames : d[f] \in PartlyRemoved(importsDir[n][f])}
    IN  {[cache |-> c, importsDir |-> i] :
            c \in {cache, {}},
            i \in {d \in [Layers -> UNION {dirsOf(n) : n \in Layers}] :
                      \A n \in Layers : d[n] \in dirsOf(n)}}

\* Nothing is left of the stacker directory.
AllRemoved == [cache |-> {}, importsDir |-> [n \in Layers |-> EmptyDir]]

\* build.go 68-69: the process starts.  The invocation is given one of the
\* stackerfiles `sfs`, finds the local files with contents of `contents`
\* and is given flags of `flagSets`; `limit` bounds the invocations.
Start(limit, sfs, contents, flagSets) ==
    /\ pc = "idle"
    /\ builds < limit
    /\ \E nsf \in sfs, files \in [Files -> contents], fl \in flagSets :
         \* Run texts and file contents are numbered in the order they
         \* first appear: the first invocation sees version 0 of each.
         /\ \A n \in Layers : nsf[n].Run <= builds
         /\ \A f \in Files : files[f] <= builds
         /\ sf' = nsf
         /\ srcFiles' = DiskWith(files)
         /\ flags' = fl
         /\ pc' = IF fl.noCache THEN "removeall" ELSE "parse"
    /\ builds' = builds + 1
    /\ idx' = 1
    /\ defers' = <<>>
    /\ cachedDesc' = EmptyDescriptor
    /\ newPath' = EmptyDescriptor
    /\ desc' = EmptyDescriptor
    /\ result' = "running"
    /\ log' = <<>>
    /\ UNCHANGED <<call, prev, refs, trees, ociExists, ociOpen, attached, clock,
                   failures, cache, importsDir>>

FlagSets == [noCache : BOOLEAN, leaveUnladen : BOOLEAN]

StartBuild == Start(MaxBuilds, Stackerfiles, Contents, FlagSets)

\* build.go 69-71: --no-cache removes the stacker directory (cache store and
\* imports).  The result of os.RemoveAll is dropped: when some removal has
\* failed, doBuild goes on with what is left.
RemoveAll ==
    /\ pc = "removeall"
    /\ \E left \in RemoveAll_Left :
         /\ cache' = left.cache
         /\ importsDir' = left.importsDir
         /\ IF left = AllRemoved THEN UNCHANGED failures
            ELSE HasBudget /\ failures' = failures + 1
    /\ pc' = "parse"
    /\ UNCHANGED <<call, inputV, localV, ghostV, procV, idx, result, log, refs,
                   trees, ociExists, clock>>

\* build.go 73-77: the stackerfile is parsed.
NewStackerfile ==
    /\ pc = "parse"
    /\ \/ /\ Done("NewStackerfile", NoLayer)
          /\ pc' = "storage"
          /\ UNCHANGED result
       \/ FailAt("NewStackerfile", NoLayer)
    /\ UNCHANGED <<call, inputV, localV, ghostV, procV, idx, cache, importsDir, refs,
                   trees, ociExists, clock>>

\* build.go 79-85
NewStorage ==
    /\ pc = "storage"
    /\ \/ /\ Done("NewStorage", NoLayer)
          /\ attached' = TRUE
          /\ defers' = IF flags.leaveUnladen THEN defers
                       ELSE Append(defers, "Detach")
          /\ pc' = "order"
          /\ UNCHANGED result
       \/ /\ FailAt("NewStorage", NoLayer)
          /\ UNCHANGED <<attached, defers>>
    /\ UNCHANGED <<call, inputV, localV, ghostV, idx, cache, importsDir, refs, trees,
                   ociExists, ociOpen, clock>>

\* build.go 87-90
DependencyOrder ==
    /\ pc = "order"
    /\ \/ /\ Done("DependencyOrder", NoLayer)
          /\ pc' = "layout"
          /\ UNCHANGED result
       \/ FailAt("DependencyOrder", NoLayer)
    /\ UNCHANGED <<call, inputV, localV, ghostV, procV, idx, cache, importsDir, refs,
                   trees, ociExists, clock>>

\* build.go 92-101: the layout is created if the directory is absent,
\* opened otherwise.
OpenLayout ==
    /\ pc = "layout"
    /\ \/ /\ Done("OpenLayout", NoLayer)
          /\ ociExists' = TRUE
          /\ ociOpen' = TRUE
          /\ defers' = Append(defers, "Close")
          /\ pc' = "cache"
          /\ UNCHANGED result
       \/ /\ FailAt("OpenLayout", NoLayer)
          /\ UNCHANGED <<ociExists, ociOpen, defers>>
    /\ UNCHANGED <<call, inputV, localV, ghostV, attached, idx, cache, importsDir,
                   refs, trees, clock>>

\* build.go 103-108
OpenCache ==
    /\ pc = "cache"
    /\ \/ /\ Done("OpenCache", NoLayer)
          /\ defers' = Append(defers, "DeleteWorking")
          /\ pc' = "import"
          /\ UNCHANGED result
       \/ /\ FailAt("OpenCache", NoLayer)
          /\ UNCHANGED defers
    /\ UNCHANGED <<call, inputV, localV, ghostV, ociOpen, attached, idx, cache,
                   importsDir, refs, trees, ociExists, clock>>

-----------------------------------------------------------------------------
(* doBuild, the loop over the layers *)

\* build.go 114-126: the imports of the layer are brought up to date.
ImportStep ==
    /\ pc = "import"
    /\ LET r == Import(Cur, L.Import)
       IN  \/ /\ r.ok
              /\ Done("Import", Cur)
              /\ importsDir' = [importsDir EXCEPT ![Cur] = r.dir]
              /\ pc' = "lookup"
              /\ UNCHANGED result
           \/ /\ ~r.ok
              /\ importsDir' = [importsDir EXCEPT ![Cur] = r.dir]
              /\ pc' = "return"
              /\ result' = "err"
              /\ log' = Append(log, Ev("Import", Cur, FALSE))
              /\ UNCHANGED failures
           \* A call of the system fails inside Import (Chmod or io.Copy in
           \* fileCopy after os.Create has truncated the destination, a
           \* write of cp, rsync or the download): Import returns the error
           \* and leaves what was written until then; cp goes on with the
           \* next file after a write that has failed.
           \/ /\ FailAt("Import", Cur)
              /\ \E d \in Import_Stopped(Cur, L.Import, FALSE) :
                    importsDir' = [importsDir EXCEPT ![Cur] = d]
    /\ UNCHANGED <<call, inputV, localV, ghostV, procV, idx, cache, refs, trees,
                   ociExists, clock>>

\* build.go 128-130: the cache is asked about the layer and its imports
\* directory.
LookupStep ==
    /\ pc = "lookup"
    /\ LET dir == importsDir[ImportDirOf(Cur)]
           r == Lookup(cache, L, dir)
       IN  /\ cachedDesc' = r.desc
           /\ log' = Append(log, [Ev("Lookup", Cur, TRUE) EXCEPT
                                    !.found = r.ok, !.key = CacheKey(L, dir),
                                    !.desc = r.desc])
           /\ pc' = IF r.ok THEN "hit" ELSE "prepare"
    /\ UNCHANGED <<call, inputV, newPath, desc, ghostV, procV, idx, result, failures,
                   cache, importsDir, refs, trees, ociExists, clock>>

\* A cache hit that first clears the working tree, as the miss path does.
CacheHit_DeletesWorking ==
    /\ pc = "hit"
    /\ \/ /\ refs' = [refs EXCEPT ![Cur] = cachedDesc]
          /\ trees' = StDelete(trees, Working)
          /\ log' = Append(log, [Ev("UpdateReference", Cur, TRUE) EXCEPT
                                   !.desc = cachedDesc])
          /\ UNCHANGED failures
          /\ Continue
       \/ /\ FailAt("UpdateReference", Cur)
          /\ UNCHANGED <<refs, idx, trees>>
    /\ UNCHANGED <<call, inputV, localV, ghostV, procV, cache, importsDir,
                   ociExists, clock>>

\* build.go 130-137: a cached layer only has its reference updated.
CacheHit ==
    /\ pc = "hit"
    /\ \/ /\ refs' = [refs EXCEPT ![Cur] = cachedDesc]
          /\ log' = Append(log, [Ev("UpdateReference", Cur, TRUE) EXCEPT
                                   !.desc = cachedDesc])
          /\ UNCHANGED failures
          /\ Continue
       \/ /\ FailAt("UpdateReference", Cur)
          /\ UNCHANGED <<refs, idx>>
    /\ UNCHANGED <<call, inputV, localV, ghostV, procV, cache, importsDir, trees,
                   ociExists, clock>>

\* The tree preparation without the delete of the working tree.
PrepareTree_NoDelete(t, l) ==
    IF l.From.Type = BuiltType
    THEN StRestore(t, l.From.Tag, Working)
    ELSE StCreate(t, Working)

\* The tree preparation that already drops the layer's old snapshot.
PrepareTree_DeletesSnapshot(t, l) ==
    IF l.From.Type = BuiltType
    THEN StRestore(StDelete(StDelete(t, Cur), Working), l.From.Tag, Working)
    ELSE StCreate(StDelete(StDelete(t, Cur), Working), Working)

\* build.go 139-147: the working tree of the layer before is deleted, then
\* restored from the snapshot of a built base or created empty.
PrepareTree(t, l) ==
    IF l.From.Type = BuiltType
    THEN StRestore(StDelete(t, Working), l.From.Tag, Working)
    ELSE StCreate(StDelete(t, Working), Working)

Prepare ==
    /\ pc = "prepare"
    /\ LET sourceMissing == L.From.Type = BuiltType /\ ~trees[L.From.Tag].exists
       IN  \/ /\ ~sourceMissing
              /\ Done(IF L.From.Type = BuiltType THEN "Restore" ELSE "Create", Cur)
              /\ trees' = PrepareTree(trees, L)
              /\ pc' = IF L.From.Type = BuiltType THEN "run" ELSE "base"
              /\ UNCHANGED result
           \/ /\ sourceMissing
              /\ trees' = StDelete(trees, Working)
              /\ pc' = "return"
              /\ result' = "err"
              /\ log' = Append(log, Ev("Restore", Cur, FALSE))
              /\ UNCHANGED failures
           \/ /\ FailAt(IF L.From.Type = BuiltType THEN "Restore" ELSE "Create", Cur)
              /\ trees' = StDelete(trees, Working)
    /\ UNCHANGED <<call, inputV, localV, ghostV, procV, idx, cache, importsDir, refs,
                   ociExists, clock>>

\* build.go 149-161: the base image is unpacked into the working tree.
GetBaseLayer ==
    /\ pc = "base"
    /\ \/ /\ Done("GetBaseLayer", Cur)
          /\ trees' = [trees EXCEPT ![Working] =
                         [exists |-> TRUE, fs |-> BaseFS,
                          mtrees |-> {MtreeName(BaseDescriptor)},
                          meta |-> BaseDescriptor]]
          /\ pc' = "run"
          /\ UNCHANGED result
       \/ /\ FailAt("GetBaseLayer", Cur)
          /\ UNCHANGED trees
    /\ UNCHANGED <<call, inputV, localV, ghostV, procV, idx, cache, importsDir, refs,
                   ociExists, clock>>

\* build.go 164-173: the run commands of the layer execute in the working
\* tree.
Run ==
    /\ pc = "run"
    /\ \/ /\ Done("Run", Cur)
          /\ trees' = [trees EXCEPT ![Working].fs =
                         RunOn(@, Cur, L, importsDir[Cur])]
          /\ pc' = IF L.BuildOnly THEN "bo_snapshot" ELSE "repack"
          /\ UNCHANGED result
       \/ /\ FailAt("Run", Cur)
          /\ UNCHANGED trees
    /\ UNCHANGED <<call, inputV, localV, ghostV, procV, idx, cache, importsDir, refs,
                   ociExists, clock>>

\* s.Delete(name); s.Snapshot(".working", name)
TakeSnapshot(t, name) == StSnapshot(StDelete(t, name), Working, name)

\* build.go 174-177: a build-only layer is snapshotted as it is.
BuildOnlySnapshot ==
    /\ pc = "bo_snapshot"
    /\ \/ /\ Done("Snapshot", Cur)
          /\ trees' = TakeSnapshot(trees, Cur)
          /\ pc' = "bo_put"
          /\ UNCHANGED result
       \/ /\ FailAt("Snapshot", Cur)
          /\ trees' = StDelete(trees, Cur)
    /\ UNCHANGED <<call, inputV, localV, ghostV, procV, idx, cache, importsDir, refs,
                   ociExists, clock>>

\* A build-only layer recorded with whatever descriptor was looked up last.
BuildOnlyDescriptor_Stale == desc

\* build.go 180: the descriptor a build-only layer is recorded with.
BuildOnlyDescriptor == EmptyDescriptor

\* build.go 179-183: and recorded in the cache with the empty descriptor.
BuildOnlyPut ==
    /\ pc = "bo_put"
    /\ \/ /\ cache' = Put(cache, L, importsDir[ImportDirOf(Cur)], BuildOnlyDescriptor)
          /\ log' = Append(log, [Ev("Put", Cur, TRUE) EXCEPT
                                   !.key = CacheKey(L, importsDir[ImportDirOf(Cur)]),
                                   !.desc = BuildOnlyDescriptor])
          /\ UNCHANGED failures
          /\ Continue
       \/ /\ FailAt("Put", Cur)
          /\ UNCHANGED <<cache, idx>>
    /\ UNCHANGED <<call, inputV, localV, ghostV, procV, importsDir, refs, trees,
                   ociExists, clock>>

-----------------------------------------------------------------------------
(* doBuild, the commit of a layer that is not build-only *)

\* build.go 186-197: umoci repack --refresh-bundle writes the tree's delta
\* as a new image under the layer's name and refreshes the bundle's mtree
\* and metadata.
Repack ==
    /\ pc = "repack"
    /\ \/ /\ Done("Repack", Cur)
          /\ LET d == [kind |-> "repack", fs |-> trees[Working].fs, t |-> clock]
             IN  /\ refs' = [refs EXCEPT ![Cur] = d]
                 /\ trees' = [trees EXCEPT ![Working].mtrees = {MtreeName(d)},
                                           ![Working].meta = d]
          /\ pc' = "mutate"
          /\ UNCHANGED result
       \/ /\ FailAt("Repack", Cur)
          /\ UNCHANGED <<refs, trees>>
    /\ UNCHANGED <<call, inputV, localV, ghostV, procV, idx, cache, importsDir,
                   ociExists, clock>>

\* build.go 199-296: the mutator session is opened on the layer's name and
\* the edited configuration, metadata and history are set on it.
Mutate ==
    /\ pc = "mutate"
    /\ \/ /\ Done("Set", Cur)
          /\ pc' = "commit"
          /\ UNCHANGED result
       \/ FailAt("Set", Cur)
    /\ UNCHANGED <<call, inputV, localV, ghostV, procV, idx, cache, importsDir, refs,
                   trees, ociExists, clock>>

\* build.go 298-301: the commit yields a new descriptor; its creation time
\* makes it differ from every earlier one.
Commit ==
    /\ pc = "commit"
    /\ \/ /\ Done("Commit", Cur)
          /\ clock' = clock + 1
          /\ newPath' = [kind |-> "commit", fs |-> refs[Cur].fs, t |-> clock + 1]
          /\ pc' = "updateref"
          /\ UNCHANGED result
       \/ /\ FailAt("Commit", Cur)
          /\ UNCHANGED <<clock, newPath>>
    /\ UNCHANGED <<call, inputV, cachedDesc, desc, ghostV, procV, idx, cache,
                   importsDir, refs, trees, ociExists>>

\* build.go 303-306
UpdateReference ==
    /\ pc = "updateref"
    /\ \/ /\ refs' = [refs EXCEPT ![Cur] = newPath]
          /\ log' = Append(log, [Ev("UpdateReference", Cur, TRUE) EXCEPT
                                   !.desc = newPath])
          /\ UNCHANGED failures
          /\ pc' = "mtree"
          /\ UNCHANGED result
       \/ /\ FailAt("UpdateReference", Cur)
          /\ UNCHANGED refs
    /\ UNCHANGED <<call, inputV, localV, ghostV, procV, idx, cache, importsDir, trees,
                   ociExists, clock>>

\* build.go 308-314
RenameBundleMtree ==
    /\ pc = "mtree"
    /\ \/ /\ Done("updateBundleMtree", Cur)
          /\ \E t \in updateBundleMtree(trees[Working], newPath) :
                trees' = [trees EXCEPT ![Working] = t]
          /\ pc' = "meta"
          /\ UNCHANGED result
       \/ /\ FailAt("updateBundleMtree", Cur)
          /\ UNCHANGED trees
    /\ UNCHANGED <<call, inputV, localV, ghostV, procV, idx, cache, importsDir, refs,
                   ociExists, clock>>

\* build.go 316-320
WriteBundleMeta ==
    /\ pc = "meta"
    /\ \/ /\ Done("WriteBundleMeta", Cur)
          /\ trees' = [trees EXCEPT ![Working].meta = newPath]
          /\ pc' = "snapshot"
          /\ UNCHANGED result
       \/ /\ FailAt("WriteBundleMeta", Cur)
          /\ UNCHANGED trees
    /\ UNCHANGED <<call, inputV, localV, ghostV, procV, idx, cache, importsDir, refs,
                   ociExists, clock>>

\* A snapshot step that records the layer in the cache right away.
Snapshot_PutsEarly ==
    /\ pc = "snapshot"
    /\ \/ /\ Done("Snapshot", Cur)
          /\ trees' = TakeSnapshot(trees, Cur)
          /\ cache' = Put(cache, L, importsDir[ImportDirOf(Cur)], refs[Cur])
          /\ pc' = "manifest"
          /\ UNCHANGED result
       \/ /\ FailAt("Snapshot", Cur)
          /\ trees' = StDelete(trees, Cur)
          /\ UNCHANGED cache
    /\ UNCHANGED <<call, inputV, localV, ghostV, procV, idx, importsDir, refs,
                   ociExists, clock>>

\* build.go 322-328: the old snapshot of the layer is replaced.
Snapshot ==
    /\ pc = "snapshot"
    /\ \/ /\ Done("Snapshot", Cur)
          /\ trees' = TakeSnapshot(trees, Cur)
          /\ pc' = "manifest"
          /\ UNCHANGED result
       \/ /\ FailAt("Snapshot", Cur)
          /\ trees' = StDelete(trees, Cur)
    /\ UNCHANGED <<call, inputV, localV, ghostV, procV, idx, cache, importsDir, refs,
                   ociExists, clock>>

\* build.go 330-333
LookupManifestDescriptor ==
    /\ pc = "manifest"
    /\ \/ /\ refs[Cur] # NoRef
          /\ Done("LookupManifestDescriptor", Cur)
          /\ desc' = refs[Cur]
          /\ pc' = "put"
          /\ UNCHANGED result
       \/ /\ FailAt("LookupManifestDescriptor", Cur)
          /\ UNCHANGED desc
    /\ UNCHANGED <<call, inputV, cachedDesc, newPath, ghostV, procV, idx, cache,
                   importsDir, refs, trees, ociExists, clock>>

\* A layer recorded with the descriptor the repack left in the bundle
\* metadata before the commit.
PutDescriptor_Repacked ==
    [kind |-> "repack", fs |-> desc.fs, t |-> desc.t - 1]

\* build.go 335: the descriptor a committed layer is recorded with.
PutDescriptor == desc

\* build.go 335-338
PutStep ==
    /\ pc = "put"
    /\ \/ /\ cache' = Put(cache, L, importsDir[ImportDirOf(Cur)], PutDescriptor)
          /\ log' = Append(log, [Ev("Put", Cur, TRUE) EXCEPT
                                   !.key = CacheKey(L, importsDir[ImportDirOf(Cur)]),
                                   !.desc = PutDescriptor])
          /\ UNCHANGED failures
          /\ Continue
       \/ /\ FailAt("Put", Cur)
          /\ UNCHANGED <<cache, idx>>
    /\ UNCHANGED <<call, inputV, localV, ghostV, procV, importsDir, refs, trees,
                   ociExists, clock>>

-----------------------------------------------------------------------------
(* Leaving doBuild *)

\* The effect of the deferred calls, last registered first.
RECURSIVE RunDefers(_, _)
RunDefers(ds, st) ==
    IF ds = <<>> THEN st
    ELSE LET d == ds[Len(ds)]
             rest == SubSeq(ds, 1, Len(ds) - 1)
         IN  RunDefers(rest,
                CASE d = "DeleteWorking" ->
                       [st EXCEPT !.trees = StDelete(@, Working)]
                  [] d = "Close" -> [st EXCEPT !.ociOpen = FALSE]
                  [] d = "Detach" -> [st EXCEPT !.attached = FALSE])

\* The process is gone: what it held in memory is gone with it.
ProcessExit(res) ==
    /\ pc' = "idle"
    /\ prev' = EndSummary(res)
    /\ defers' = <<>>
    /\ log' = <<>>
    /\ idx' = 1
    /\ flags' = NoFlags
    /\ cachedDesc' = EmptyDescriptor
    /\ newPath' = EmptyDescriptor
    /\ desc' = EmptyDescriptor

\* A return whose cleanup sits at the end of the function instead of being
\* deferred: it runs after the loop, and not on an early `return err`.
Return_CleanupAtEnd ==
    /\ pc = "return"
    /\ LET st == RunDefers(IF result = "ok" THEN defers ELSE <<>>,
                           [trees |-> trees, ociOpen |-> ociOpen,
                            attached |-> attached])
       IN  /\ trees' = st.trees
           /\ ociOpen' = st.ociOpen
           /\ attached' = st.attached
    /\ ProcessExit(result)
    /\ UNCHANGED <<call, sf, srcFiles, builds, result, failures, cache, importsDir,
                   refs, ociExists, clock>>

\* build.go 84, 101, 108: doBuild returns and its deferred calls run.
Return ==
    /\ pc = "return"
    /\ LET st == RunDefers(defers, [trees |-> trees, ociOpen |-> ociOpen,
                                    attached |-> attached])
       IN  /\ trees' = st.trees
           /\ ociOpen' = st.ociOpen
           /\ attached' = st.attached
    /\ ProcessExit(result)
    /\ UNCHANGED <<call, sf, srcFiles, builds, result, failures, cache, importsDir,
                   refs, ociExists, clock>>

\* What a kill of the process can leave behind.  It falls before the step
\* at hand or between two of the calls the step is made of: inside
\* os.RemoveAll (build.go 70), inside Import (124), between s.Delete and the
\* s.Restore, s.Create or s.Snapshot that follows it (139-145, 174-175,
\* 323-324), and, once doBuild is at a return statement, before, between
\* and after its deferred calls.
KillPoints ==
    LET now == [trees |-> trees, ociOpen |-> ociOpen, attached |-> attached,
                importsDir |-> importsDir, cache |-> cache]
    IN  CASE pc = "removeall" ->
               {[now EXCEPT !.cache = left.cache,
                            !.importsDir = left.importsDir] :
                   left \in RemoveAll_Left}
          [] pc = "import" ->
               {[now EXCEPT !.importsDir = [importsDir EXCEPT ![Cur] = d]] :
                   d \in Import_Stopped(Cur, L.Import, TRUE)}
          [] pc = "prepare" ->
               {now, [now EXCEPT !.trees = StDelete(trees, Working)]}
          [] pc \in {"bo_snapshot", "snapshot"} ->
               {now, [now EXCEPT !.trees = StDelete(trees, Cur)]}
          [] pc = "return" ->
               {RunDefers(SubSeq(defers, k, Len(defers)), now) :
                   k \in 1..(Len(defers) + 1)}
          [] OTHER -> {now}

\* The process is killed: the deferred calls that have not run yet do not
\* run, what is on disk stays as it is.
Interrupt ==
    /\ pc # "idle"
    /\ HasBudget
    /\ failures' = failures + 1
    /\ result' = "killed"
    /\ \E k \in KillPoints :
         /\ trees' = k.trees
         /\ attached' = k.attached
         /\ importsDir' = k.importsDir
         /\ cache' = k.cache
    /\ ociOpen' = FALSE
    /\ ProcessExit("killed")
    /\ UNCHANGED <<call, sf, srcFiles, builds, refs, ociExists, clock>>

Next ==
    \/ StartBuild
    \/ RemoveAll
    \/ NewStackerfile
    \/ NewStorage
    \/ DependencyOrder
    \/ OpenLayout
    \/ OpenCache
    \/ ImportStep
    \/ LookupStep
    \/ CacheHit
    \/ Prepare
    \/ GetBaseLayer
    \/ Run
    \/ BuildOnlySnapshot
    \/ BuildOnlyPut
    \/ Repack
    \/ Mutate
    \/ Commit
    \/ UpdateReference
    \/ RenameBundleMtree
    \/ WriteBundleMeta
    \/ Snapshot
    \/ LookupManifestDescriptor
    \/ PutStep
    \/ Return
    \/ Interrupt

Spec == Init /\ [][Next]_vars

-----------------------------------------------------------------------------
(* Properties *)

\* C1: every cache lookup of an invocation comes after the successful import
\* of the same layer, no failed import of that layer comes before it, and
\* its key is made of the layer's declaration and the layer's own imports
\* directory.
C1_ImportBeforeLookup ==
    \A i \in Events :
        log[i].op = "Lookup" =>
            /\ \E j \in 1..(i - 1) :
                 log[j].op = "Import" /\ log[j].layer = log[i].layer /\ log[j].ok
            /\ \A j \in 1..(i - 1) :
                 (log[j].op = "Import" /\ log[j].layer = log[i].layer) => log[j].ok
            /\ log[i].key = [layer |-> sf[log[i].layer],
                             imports |-> importsDir[log[i].layer]]

\* The lookup of B was done on a populated imports directory while A's is
\* empty.
C1_Witness ==
    /\ \E i \in Events : log[i].op = "Lookup" /\ log[i].layer = "B"
    /\ importsDir["B"]["data.txt"] # Absent
    /\ importsDir["A"]["data.txt"] = Absent

\* C2: the step a layer takes after its lookup reported found changes
\* nothing but that layer's reference, which becomes the cached descriptor:
\* the working tree, the snapshots, the cache store, the imports and every
\* other reference stay, and the only call logged is the reference update.
C2_CacheHitFrame ==
    [][pc = "hit" =>
          /\ trees' = trees
          /\ cache' = cache
          /\ importsDir' = importsDir
          /\ clock' = clock
          /\ \A n \in Layers \ {Cur} : refs'[n] = refs[n]
          /\ \/ /\ refs'[Cur] = cachedDesc
                /\ log' = Append(log, [Ev("UpdateReference", Cur, TRUE) EXCEPT
                                         !.desc = cachedDesc])
                /\ pc' \in {"import", "return"}
             \/ /\ refs' = refs
                /\ result' \in {"err", "killed"}
                /\ pc' \in {"return", "idle"}
          /\ cachedDesc = (CHOOSE e \in cache :
                             e.key = [layer |-> L, imports |-> importsDir[Cur]]).desc
      ]_vars

\* C is served from the cache while the working tree of a rebuilt earlier
\* layer is still in place.
C2_Witness ==
    /\ Len(log) > 1
    /\ log[Len(log)].op = "UpdateReference" /\ log[Len(log)].ok
    /\ log[Len(log)].layer = "C"
    /\ Hit("C")
    /\ trees[Working].exists
    /\ refs["C"] = cachedDesc

\* C3: while an invocation runs with a layer declared build-only, the
\* layer's named reference is never created or updated, and every cache Put
\* for the layer carries the empty descriptor.
C3_BuildOnlyNeverReferenced ==
    [][pc # "idle" =>
          \A n \in Layers :
              sf[n].BuildOnly =>
                  /\ refs'[n] = refs[n]
                  /\ \A i \in Puts(n) : log[i].desc = EmptyDescriptor
      ]_vars

\* The layers a layer is built on, through its chain of built-type `from`s.
RECURSIVE FromChain(_)
FromChain(n) ==
    IF sf[n].From.Type = BuiltType
    THEN {sf[n].From.Tag} \cup FromChain(sf[n].From.Tag)
    ELSE {}

\* The invocation before this one succeeded on the same stackerfile, and
\* this one does not discard the cache.
SameStackerfileAgain ==
    /\ pc # "idle"
    /\ prev.result = "ok"
    /\ prev.sf = sf
    /\ ~flags.noCache

\* C4: in the invocation that follows a successful build of the same
\* stackerfile, with only the content of B's imported file changed, the
\* lookup of A reports found and the lookups of B and C report not-found, so
\* that no layer is found in the cache after a layer of its `from` chain
\* was rebuilt.
C4_DependentsRebuilt ==
    (SameStackerfileAgain /\ prev.srcFiles # srcFiles) =>
        /\ \A i \in Events :
              log[i].op = "Lookup" => (log[i].found <=> log[i].layer = "A")
        /\ \A i \in Events :
              (log[i].op = "Lookup" /\ log[i].found) =>
                  \A m \in FromChain(log[i].layer) : ~Missed(m)

\* The calls of the cache-miss path.
MissPathOps ==
    {"Restore", "Create", "GetBaseLayer", "Run", "Snapshot", "Repack", "Set",
     "Commit", "updateBundleMtree", "WriteBundleMeta",
     "LookupManifestDescriptor", "Put"}

\* The invocation takes the cache-hit branch for every layer: every lookup
\* it has made is found, it has made no call of the cache-miss path and is
\* at no step of it, and when it has succeeded every layer was found and
\* every layer that is not build-only has the reference it had before.
AllLayersHit ==
    /\ \A i \in Events :
          /\ log[i].op = "Lookup" => log[i].found
          /\ log[i].op \notin MissPathOps
    /\ pc \notin {"prepare", "base", "run", "bo_snapshot", "bo_put", "repack",
                  "mutate", "commit", "updateref", "mtree", "meta",
                  "snapshot", "manifest", "put"}
    /\ (result = "ok" /\ pc = "return") =>
          /\ \A n \in Layers : Hit(n)
          /\ \A n \in Layers : ~sf[n].BuildOnly => refs[n] = prev.refs[n]

\* C5: an invocation that follows a successful one with the same stackerfile
\* and the same imported files takes the cache-hit branch for every layer,
\* whatever flags it is given.
C5_EveryRebuildHits ==
    (/\ pc # "idle"
     /\ prev.result = "ok"
     /\ prev.sf = sf
     /\ prev.srcFiles = srcFiles) => AllLayersHit

\* C5: an invocation that follows a successful one with the same stackerfile
\* and the same imported files and is not given --no-cache takes the
\* cache-hit branch for every layer: it finds every layer it looks up, makes
\* no call of the cache-miss path, and when it has succeeded every layer
\* that is not build-only has the reference it had before.
C5_RebuildIdempotent ==
    (/\ pc # "idle"
     /\ prev.result = "ok"
     /\ prev.sf = sf
     /\ prev.srcFiles = srcFiles
     /\ ~flags.noCache) => AllLayersHit

\* A second, successful build of an unchanged stackerfile with a committed
\* layer A and a build-only layer B.
C5_Witness ==
    /\ SameStackerfileAgain /\ prev.srcFiles = srcFiles
    /\ result = "ok" /\ pc = "return"
    /\ sf["B"].BuildOnly /\ ~sf["C"].BuildOnly
    /\ refs["A"].kind = "commit" /\ refs["C"].kind = "commit"

\* The layer is behind the loop: a later layer is being built, or the
\* invocation has returned nil.
Completed(n) ==
    \/ Position(n) < idx
    \/ Position(n) = idx /\ result = "ok" /\ Ended

\* C6: in one invocation a layer has at most one cache Put; a Put comes
\* after the layer missed the cache and after its snapshot, and carries the
\* empty descriptor exactly for a build-only layer, otherwise the committed
\* descriptor the layer's reference holds; a completed layer that missed has
\* exactly one Put; a layer that hit, or at which the invocation was cut,
\* has none.
C6_ExactlyOnePut ==
    \A n \in Layers :
        /\ Cardinality(Puts(n)) <= 1
        /\ \A i \in Puts(n) :
              /\ Missed(n)
              /\ \E j \in 1..(i - 1) :
                    log[j].op = "Snapshot" /\ log[j].layer = n /\ log[j].ok
              /\ log[i].desc = EmptyDescriptor <=> sf[n].BuildOnly
              /\ ~sf[n].BuildOnly =>
                    log[i].desc = refs[n] /\ refs[n].kind = "commit"
        /\ (Completed(n) /\ Missed(n)) => Cardinality(Puts(n)) = 1
        /\ Hit(n) => Puts(n) = {}
        /\ (result = "err" /\ Ended /\ n = Cur) => Puts(n) = {}

\* A finished build in which A was cached, the build-only B and the
\* committed C were rebuilt and recorded.
C6_Witness ==
    /\ result = "ok" /\ pc = "return"
    /\ sf["B"].BuildOnly /\ ~sf["C"].BuildOnly
    /\ Hit("A")
    /\ Puts("B") # {} /\ Puts("C") # {}

\* C7: once a step has failed, the only thing the invocation still does is
\* return (unless the process is killed before it has): no further call is
\* made for this or any later layer, and the references, the cache entries,
\* the imports and the snapshots stay as they are; the failed call is the
\* last call of the log.
C7_FailureStopsBuild ==
    [][(result = "err" /\ pc # "idle") =>
          /\ pc = "return"
          /\ pc' = "idle"
          /\ refs' = refs
          /\ cache' = cache
          /\ importsDir' = importsDir
          /\ \A n \in Layers : trees'[n] = trees[n]
          /\ ~log[Len(log)].ok
          /\ \A i \in 1..(Len(log) - 1) : log[i].ok
          /\ prev'.result = IF result' = "killed" THEN "killed" ELSE "err"
      ]_vars

\* A build that failed at B after A had been committed and recorded.
C7_Witness ==
    /\ pc = "return" /\ result = "err"
    /\ Cur = "B"
    /\ Puts("A") # {}
    /\ refs["A"].kind = "commit"
    /\ \E i \in Events : log[i].layer = "B" /\ ~log[i].ok
    /\ ~Did("Import", "C")

MissPathPcs ==
    {"prepare", "base", "run", "bo_snapshot", "bo_put", "repack", "mutate",
     "commit", "updateref", "mtree", "meta", "snapshot", "manifest", "put"}

\* C8: as long as a layer is on its cache-miss path, and when the invocation
\* is cut there by an error or an interrupt, the cache holds no entry for
\* the layer's fingerprint; the next invocation with the same stackerfile
\* and imported files reports not-found for that layer again.
C8_NoEntryBeforeDone ==
    /\ (pc \in MissPathPcs \/ (result = "err" /\ Ended /\ Missed(Cur))) =>
          ~\E e \in cache :
              e.key = [layer |-> sf[Cur], imports |-> importsDir[Cur]]
    /\ (pc = "idle" /\ prev.missLayer # NoLayer) =>
          ~\E e \in cache :
              e.key = [layer |-> prev.sf[prev.missLayer],
                       imports |-> importsDir[prev.missLayer]]
    /\ (prev.missLayer # NoLayer /\ prev.sf = sf /\ prev.srcFiles = srcFiles) =>
          \A i \in Events :
              (log[i].op = "Lookup" /\ log[i].layer = prev.missLayer) =>
                  ~log[i].found

\* B is being rebuilt by the invocation that follows one cut during B's
\* cache-miss path, with the cache kept.
C8_Witness ==
    /\ pc = "prepare" /\ Cur = "B"
    /\ prev.missLayer = "B"
    /\ prev.sf = sf /\ prev.srcFiles = srcFiles
    /\ ~flags.noCache
    /\ Hit("A")

\* C9: when the commands of a layer are about to run, the working tree is
\* the snapshot of the layer's built base, or the freshly unpacked base
\* image, and not the tree an earlier layer left; after they ran it is that
\* tree with the layer's own run applied.
C9_FreshWorkingTree ==
    LET start == IF L.From.Type = BuiltType THEN trees[L.From.Tag].fs ELSE BaseFS
    IN  /\ pc = "run" =>
              /\ trees[Working].exists
              /\ trees[Working].fs = start
        /\ pc \in {"bo_snapshot", "repack"} =>
              /\ trees[Working].exists
              /\ trees[Working].fs =
                    Append(start, [layer |-> Cur, run |-> L.Run,
                                   imports |-> importsDir[Cur]])

\* C is about to run after A was rebuilt and B was served from the cache:
\* the tree left in place is A's, the tree to run on is B's snapshot.
C9_Witness ==
    /\ pc = "run" /\ Cur = "C"
    /\ Did("Run", "A")
    /\ Hit("B")
    /\ trees["A"].fs # trees[Working].fs

CommitOps ==
    {"Repack", "Commit", "UpdateReference", "updateBundleMtree",
     "WriteBundleMeta"}

\* C10: the snapshot stored under a layer's name changes only in a step of
\* that layer's own build, and for a layer that is not build-only only
\* after repack, commit, reference update, mtree rename and bundle metadata
\* rewrite have all succeeded for it in this invocation.
C10_SnapshotAfterCommit ==
    [][\A n \in Layers :
          trees'[n] # trees[n] =>
              /\ pc # "idle"
              /\ n = Cur
              /\ Missed(n)
              /\ ~sf[n].BuildOnly => \A op \in CommitOps : Did(op, n)
      ]_vars

\* The snapshot of a committed layer has just replaced the one an earlier
\* successful build had left.
C10_Witness ==
    /\ pc = "manifest"
    /\ ~L.BuildOnly
    /\ prev.result = "ok"
    /\ prev.refs[Cur].kind = "commit"
    /\ trees[Cur] = trees[Working]
    /\ trees[Cur].meta = refs[Cur]
    /\ refs[Cur] # prev.refs[Cur]

-----------------------------------------------------------------------------
(* Bundle metadata of a committed layer *)

\* C11: once commit, reference update, mtree rename and bundle metadata
\* rewrite have succeeded for a layer that is not build-only, the working
\* tree holds exactly one mtree file, named after the digest of the new
\* descriptor with the colon replaced by an underscore and ".mtree" appended,
\* the bundle metadata names the same descriptor, and that descriptor is the
\* one the layer's reference points to; the snapshot then taken carries the
\* same three.
C11_MtreeInLockStep ==
    LET name == <<"sha256", "_", newPath, ".mtree">>
    IN  /\ pc \in {"snapshot", "manifest", "put"} =>
              /\ ~L.BuildOnly
              /\ newPath.kind = "commit"
              /\ refs[Cur] = newPath
              /\ trees[Working].mtrees = {name}
              /\ Cardinality(trees[Working].mtrees) = 1
              /\ trees[Working].meta = newPath
        /\ pc \in {"manifest", "put"} =>
              /\ trees[Cur].mtrees = {name}
              /\ trees[Cur].meta = newPath

\* The snapshot of C has just been taken from a tree that was restored from
\* the build-only layer B, whose own tree still carried A's mtree file.
C11_Witness ==
    /\ pc = "manifest" /\ Cur = "C"
    /\ sf["B"].BuildOnly
    /\ trees["B"].mtrees = {MtreeName(refs["A"])}
    /\ trees["C"].mtrees = {MtreeName(newPath)}
    /\ trees["C"].meta = refs["C"]
    /\ refs["A"] # refs["C"]

-----------------------------------------------------------------------------
(* Release of the resources of an invocation *)

\* C12 as stated: whenever doBuild returns, the storage is detached if it
\* had been opened, the layout is closed if it had been opened, and the
\* working tree is gone if the layer loop had been reached.  (A process
\* killed while its deferred calls run does not return.)
C12_DetachOnEveryExit ==
    [][(pc = "return" /\ pc' = "idle" /\ result' # "killed") =>
          /\ Did("NewStorage", NoLayer) => ~attached'
          /\ Did("OpenLayout", NoLayer) => ~ociOpen'
          /\ Did("OpenCache", NoLayer) => ~trees'[Working].exists
      ]_vars

\* C12, amended: whenever doBuild returns, with nil or with an error, the
\* layout is closed if it had been opened and the working tree is gone if
\* the layer loop had been reached; the storage it had opened is detached
\* unless the invocation was given --leave-unladen, and is then left attached.
C12_ReleasedUnlessLeftMounted ==
    [][(pc = "return" /\ pc' = "idle" /\ result' # "killed") =>
          /\ (Did("NewStorage", NoLayer) /\ ~flags.leaveUnladen) => ~attached'
          /\ (Did("NewStorage", NoLayer) /\ flags.leaveUnladen) => attached'
          /\ Did("OpenLayout", NoLayer) => ~ociOpen'
          /\ Did("OpenCache", NoLayer) => ~trees'[Working].exists
      ]_vars

\* The first invocation has returned an error after the snapshot of A was
\* taken from the working tree: storage, layout and working tree were all
\* held, and all three are released.
C12_Witness ==
    /\ pc = "idle" /\ builds = 1
    /\ prev.result = "err" /\ prev.missLayer = "A"
    /\ trees["A"].exists
    /\ ~trees[Working].exists
    /\ ~attached
    /\ ociExists /\ ~ociOpen

-----------------------------------------------------------------------------
(* filesDiffer called on its own *)

\* All sequences over S of length at most n.
RECURSIVE SeqsUpTo(_, _)
SeqsUpTo(S, n) ==
    IF n = 0 THEN {<<>>}
    ELSE LET shorter == SeqsUpTo(S, n - 1)
         IN  shorter \cup {Append(q, x) : q \in shorter, x \in S}

ByteStrings == SeqsUpTo(0..MaxByte, MaxSize)
LinkTargets == SeqsUpTo({"x", "y"}, MaxSize) \ {<<>>}

\* The files and symlinks a path given to filesDiffer can hold; the file
\* a symlink resolves to is empty or one byte long.
FileEntries ==
    {Regular(b) : b \in ByteStrings} \cup
    {Symlink(t, b) : t \in LinkTargets, b \in SeqsUpTo(0..MaxByte, 1)}

\* The caller has a FileInfo for each of two paths, both obtained with
\* Lstat or both with Stat, and has not called filesDiffer yet.
CompareInit ==
    /\ InitBuild
    /\ srcFiles = DiskWith([f \in Files |-> 0])
    /\ \E n1 \in {"data.txt", "other.bin"}, n2 \in {"data.txt"},
          e1 \in FileEntries, e2 \in FileEntries, follow \in BOOLEAN :
         call = [op |-> "filesDiffer",
                 p1 |-> e1,
                 info1 |-> IF follow THEN Stat(n1, e1) ELSE Lstat(n1, e1),
                 p2 |-> e2,
                 info2 |-> IF follow THEN Stat(n2, e2) ELSE Lstat(n2, e2),
                 done |-> FALSE,
                 ret |-> [differ |-> FALSE, err |-> NoError, opened |-> FALSE]]

FilesDifferCall ==
    /\ call.op = "filesDiffer"
    /\ ~call.done
    /\ call' = [call EXCEPT
                  !.done = TRUE,
                  !.ret = filesDiffer(call.p1, call.info1, call.p2, call.info2)]
    /\ UNCHANGED <<sf, srcFiles, flags, pc, idx, result, defers, cachedDesc,
                   newPath, desc, cache, importsDir, refs, trees, ociExists,
                   ociOpen, attached, clock, log, prev, builds, failures>>

CompareNext == FilesDifferCall

CompareSpec == CompareInit /\ [][CompareNext]_vars

\* filesDiffer has returned for two entries of the same name.
Compared == call.done /\ call.info1.name = call.info2.name

\* C13: for two regular files of the same name filesDiffer returns without
\* error, and returns "differs" exactly when the byte contents are not the
\* same: for unequal sizes it says so without opening the files, for equal
\* sizes it reads them and says so exactly when some byte differs.
C13_RegularFilesByContent ==
    (/\ Compared
     /\ call.p1.kind = "file" /\ call.p2.kind = "file") =>
        /\ call.ret.err = NoError
        /\ call.ret.differ <=> call.p1.bytes # call.p2.bytes
        /\ Len(call.p1.bytes) # Len(call.p2.bytes) =>
              call.ret.differ /\ ~call.ret.opened
        /\ Len(call.p1.bytes) = Len(call.p2.bytes) =>
              /\ call.ret.opened
              /\ call.ret.differ <=>
                    \E i \in 1..Len(call.p1.bytes) :
                        call.p1.bytes[i] # call.p2.bytes[i]

\* Two regular files of the same size that differ in their last byte only
\* were compared and reported as different.
C13_Witness ==
    /\ Compared
    /\ call.p1 = Regular(<<0, 0>>) /\ call.p2 = Regular(<<0, 1>>)
    /\ call.ret.differ /\ call.ret.opened

\* C15: for two symlinks of the same name filesDiffer returns without
\* error, returns "differs" exactly when the two target strings are not the
\* same, and does not open what the links resolve to: the bytes behind the
\* links have no part in the verdict.
C15_SymlinksByTarget ==
    (/\ Compared
     /\ call.info1.symlink /\ call.info2.symlink) =>
        /\ call.ret.err = NoError
        /\ call.ret.differ <=> call.p1.link # call.p2.link
        /\ ~call.ret.opened

\* Two symlinks with the same target string that resolve to files of
\* different size and content were compared and reported as the same.
C15_Witness ==
    /\ Compared
    /\ call.p1 = Symlink(<<"x">>, <<>>)
    /\ call.p2 = Symlink(<<"x">>, <<1>>)
    /\ call.info1.symlink /\ call.info2.symlink
    /\ ~call.ret.differ /\ ~call.ret.opened /\ call.ret.err = NoError

-----------------------------------------------------------------------------
(* Import called on its own *)

\* The import specifications in use: a local file, a remote file, a file of
\* a built layer, and one with a scheme acquireUrl does not know.
ImportSpecs ==
    {"data.txt", "http://host/remote.bin", "stacker://A/out.bin",
     "ftp://host/x.bin"}

\* The import lists a layer may declare: none, one, or two specifications,
\* or three with the unknown scheme in the middle and the local file last.
ImportLists ==
    {<<>>} \cup {<<a>> : a \in ImportSpecs}
           \cup {<<a, b>> : a \in ImportSpecs, b \in ImportSpecs}
           \cup {<<a, "ftp://host/x.bin", "data.txt">> : a \in ImportSpecs}

\* The layer whose imports directory is filled.
ImportLayer == "B"

\* The sizes the stacker directory, with its one entry, may report: 60 bytes
\* on tmpfs, and one block.
DirSizes == {60, DirBlock}

\* What may be at the local path: nothing, a file, a symlink to a file, or a
\* directory with one file.
LocalEntries ==
    {Absent, Symlink(<<"x">>, <<1>>),
     Directory({TreeFile("f", <<0>>)}, DirBlock)}
        \cup {FileWith(c) : c \in Contents}

\* What may be on disk where the specifications point to, with or without
\* the rsync binary.  The remote file and the file of the built layer are
\* both there, or one of the two is missing.
SourceDisks ==
    { [p \in Paths |->
         CASE p = "data.txt" -> local
           [] p = "http://host/remote.bin" -> rb[1]
           [] p = "rootfs/A/rootfs/out.bin" -> rb[2]
           [] p = RsyncPath -> rsync
           [] p = StackerDir -> Directory({}, size)
           [] OTHER -> Absent] :
        local \in LocalEntries,
        size \in DirSizes,
        rb \in {<<Regular(<<0>>), Regular(<<1>>)>>, <<Absent, Regular(<<1>>)>>,
                <<Regular(<<0>>), Absent>>},
        rsync \in {Absent, Regular(<<0>>)} }

\* Nothing was imported yet: the imports directories are empty.
ImportInit ==
    /\ InitBuild
    /\ srcFiles \in SourceDisks
    /\ call = [op |-> "Import", calls |-> 0, imports |-> <<>>,
               src |-> srcFiles, before |-> EmptyDir,
               ret |-> ImportStart(EmptyDir)]

buildV ==
    <<sf, flags, pc, idx, result, defers, cachedDesc, newPath, desc, cache,
      refs, trees, ociExists, ociOpen, attached, clock, log, prev, builds,
      failures>>

\* Import(c, name, imports): whatever was acquired before a failure stays in
\* the directory.
ImportCall ==
    /\ call.op = "Import"
    /\ call.calls < MaxCalls
    /\ \E imports \in ImportLists :
         LET r == Import(ImportLayer, imports)
         IN  /\ importsDir' = [importsDir EXCEPT ![ImportLayer] = r.dir]
             /\ call' = [op |-> "Import", calls |-> call.calls + 1,
                         imports |-> imports, src |-> srcFiles,
                         before |-> importsDir[ImportLayer], ret |-> r]
    /\ UNCHANGED <<srcFiles, buildV>>

\* Between two calls what is at the local path is replaced: a file gets
\* another content, or makes place for a directory, and so on; the
\* directory may also lose its file and get another one, or make place for
\* a file of the 60 bytes its copy reports as its size on tmpfs.
Rewrite ==
    /\ call.op = "Import"
    /\ call.calls > 0 /\ call.calls < MaxCalls
    /\ srcFiles = call.src
    /\ \E e \in LocalEntries \cup {Directory({TreeFile("g", <<0>>)}, DirBlock),
                                   Regular([i \in 1..60 |-> 0])} :
         /\ e # srcFiles["data.txt"]
         /\ e \notin LocalEntries =>
               srcFiles["data.txt"] = Directory({TreeFile("f", <<0>>)}, DirBlock)
         /\ srcFiles' = [srcFiles EXCEPT !["data.txt"] = e]
    /\ UNCHANGED <<importsDir, call, buildV>>

ImportNext ==
    \/ ImportCall
    \/ Rewrite

ImportSpec == ImportInit /\ [][ImportNext]_vars

\* The local file of the list <<"data.txt">> is there to be imported.
SingleFile(disk) == disk["data.txt"].kind \in {"file", "symlink"}

\* C16: a call of Import for the single local file data.txt makes one copy
\* when the destination is absent or the comparator says that source and
\* destination differ, and no copy otherwise (the directory then stays as
\* it is).  With nothing or a file at the destination the call succeeds,
\* the comparator says "differ" exactly when the contents are not the same,
\* and afterwards the destination has the source's content; a directory at
\* the destination makes the call fail and stays.  In particular the first
\* call on an empty imports directory makes exactly one copy, and a call
\* on the unchanged file after one that succeeded makes none.
C16_CopyOnlyWhenNeeded ==
    [][(/\ call'.calls = call.calls + 1
        /\ call'.imports = <<"data.txt">>
        /\ SingleFile(srcFiles)) =>
          LET src == srcFiles["data.txt"]
              old == importsDir[ImportLayer]["data.txt"]
              cmp == filesDiffer(src, Stat("data.txt", src),
                                 old, Stat("data.txt", old))
              needed == old.kind = "absent" \/ (cmp.err = NoError /\ cmp.differ)
          IN  /\ call'.ret.copies = IF needed THEN 1 ELSE 0
              /\ call'.ret.fetches = 0
              /\ old.kind \in {"absent", "file"} =>
                    /\ call'.ret.ok
                    /\ needed <=> (old.kind = "absent" \/ old.bytes # src.bytes)
                    /\ importsDir'[ImportLayer]["data.txt"] = Regular(src.bytes)
              /\ old.kind = "dir" =>
                    /\ ~call'.ret.ok
                    /\ importsDir' = importsDir
              /\ ~needed => importsDir' = importsDir
              /\ importsDir[ImportLayer] = EmptyDir => call'.ret.copies = 1
              /\ (/\ call.calls > 0
                  /\ call.imports = <<"data.txt">>
                  /\ call.ret.ok
                  /\ call.src = srcFiles) => call'.ret.copies = 0
      ]_vars

\* C14: when Import, for the single local file data.txt, has filesDiffer
\* compare the source with the entry of that name in the imports directory
\* (import.go 108-112) and exactly one of the two is a symlink, filesDiffer
\* returns the "symlink -> not symlink" error and no verdict, so that the
\* call of Import fails with that error, copies nothing and leaves the
\* directory as it is.
C14_SymlinkMismatchIsError ==
    [][(/\ call'.calls = call.calls + 1
        /\ call'.imports = <<"data.txt">>
        /\ srcFiles["data.txt"].kind \in {"file", "symlink"}
        /\ importsDir[ImportLayer]["data.txt"].kind \in {"file", "symlink"}
        /\ (srcFiles["data.txt"].kind = "symlink")
              # (importsDir[ImportLayer]["data.txt"].kind = "symlink")) =>
          LET src == srcFiles["data.txt"]
              old == importsDir[ImportLayer]["data.txt"]
              cmp == filesDiffer(src, Stat("data.txt", src),
                                 old, Stat("data.txt", old))
          IN  /\ cmp.err = SymlinkError
              /\ ~cmp.differ
              /\ ~call'.ret.ok
              /\ call'.ret.err = SymlinkError
              /\ call'.ret.copies = 0
              /\ importsDir' = importsDir
      ]_vars

\* The second call for the unchanged file has made no copy; the directory
\* held nothing but the copy the first call had made.
C16_Witness ==
    /\ call.op = "Import" /\ call.calls = 2
    /\ call.imports = <<"data.txt">>
    /\ call.src["data.txt"] = FileWith(1)
    /\ call.before = [EmptyDir EXCEPT !["data.txt"] = FileWith(1)]
    /\ call.ret.ok /\ call.ret.copies = 0
    /\ importsDir[ImportLayer] = call.before

\* The schemes acquireUrl knows.
KnownSchemes == {"", "http", "https", "stacker"}

\* The file name a specification is acquired under.
TargetOf(i) ==
    IF UrlParse(i).Scheme = "stacker" THEN Base(RootFSPath(UrlParse(i)))
    ELSE Base(i)

\* C17: the specifications Import has acquired are a prefix of the list, in
\* list order; Import returns nil exactly when that prefix is the whole
\* list, and otherwise the error of the first specification after it; a
\* specification with an unknown scheme is never acquired and makes Import
\* return the unsupported-scheme error; and nothing after the failing one
\* is fetched or copied: the copies and downloads made are those of the
\* prefix and at most one of the failing specification itself, and a file
\* only a later specification names is as it was before.
C17_StopsAtFirstFailure ==
    (call.op = "Import" /\ call.calls > 0) =>
        LET done == Len(call.ret.acquired)
        IN  /\ done <= Len(call.imports)
            /\ \A i \in 1..done :
                  /\ call.ret.acquired[i] = call.imports[i]
                  /\ UrlParse(call.imports[i]).Scheme \in KnownSchemes
            /\ call.ret.ok <=> done = Len(call.imports)
            /\ call.ret.ok <=> call.ret.err = NoError
            /\ call.ret.copies + call.ret.fetches
                  <= done + (IF call.ret.ok THEN 0 ELSE 1)
            /\ ~call.ret.ok =>
                  /\ UrlParse(call.imports[done + 1]).Scheme \notin KnownSchemes
                        <=> call.ret.err = SchemeError
                  /\ \A j \in (done + 2)..Len(call.imports) :
                        (/\ UrlParse(call.imports[j]).Scheme \in KnownSchemes
                         /\ \A i \in 1..done :
                               TargetOf(call.imports[i]) # TargetOf(call.imports[j]))
                        => importsDir[ImportLayer][TargetOf(call.imports[j])]
                             = call.before[TargetOf(call.imports[j])]

\* A list of three whose second specification has an unknown scheme: the
\* remote file before it was fetched, the local file after it was not copied.
C17_Witness ==
    /\ call.op = "Import" /\ call.calls = 1
    /\ call.imports = <<"http://host/remote.bin", "ftp://host/x.bin", "data.txt">>
    /\ call.src["data.txt"] = FileWith(0)
    /\ ~call.ret.ok /\ call.ret.err = SchemeError
    /\ call.ret.acquired = <<"http://host/remote.bin">>
    /\ call.ret.fetches = 1 /\ call.ret.copies = 0
    /\ importsDir[ImportLayer]["remote.bin"] # Absent
    /\ importsDir[ImportLayer]["data.txt"] = Absent

-----------------------------------------------------------------------------
(* The image configuration of a committed layer (build.go 204-251) *)

\* An environment entry "KEY=value", as fmt.Sprintf("%s=%s", k, v) makes it.
EnvEntry(k, v) == <<k, "=", v>>

\* strings.HasPrefix(s, "PATH=")
HasPathPrefix(s) == s[1] = "PATH" /\ s[2] = "="

\* stacker.ReasonableDefaultPath
ReasonableDefaultPath == "/usr/local/sbin:/usr/local/bin:/usr/sbin:/usr/bin:/sbin:/bin"

\* A command the layer declares (cmd, entrypoint or full_command): not set,
\* or set to a text that parses into words, or to one that does not parse.
NotSet == [set |-> FALSE, valid |-> TRUE, words |-> <<>>]
Declared(words) == [set |-> TRUE, valid |-> TRUE, words |-> words]
Unparsable == [set |-> TRUE, valid |-> FALSE, words |-> <<>>]

\* l.ParseCmd, l.ParseEntrypoint, l.ParseFullCommand
ParseCommand(d) == [ok |-> d.valid, words |-> IF d.valid THEN d.words ELSE <<>>]

\* The environment entries of `keys`, in that order, appended to env.
RECURSIVE AppendDeclared(_, _, _)
AppendDeclared(env, Environment, keys) ==
    IF keys = <<>> THEN env
    ELSE AppendDeclared(Append(env, EnvEntry(keys[1], Environment[keys[1]])),
                        Environment, Tail(keys))

\* A merge that looks for PATH among the declared variables only.
MergeEnv_DeclaredOnly(Env, Environment, keys) ==
    LET declared == \E i \in 1..Len(keys) : keys[i] = "PATH"
        merged == AppendDeclared(Env, Environment, keys)
    IN  IF ~declared
        THEN Append(merged, EnvEntry("PATH", ReasonableDefaultPath))
        ELSE merged

\* build.go 209-229: the declared variables are appended in the order the
\* map yields them (`keys`); the default PATH is appended when PATH was
\* neither declared nor is the prefix of an entry.
MergeEnv(Env, Environment, keys) ==
    LET declared == \E i \in 1..Len(keys) : keys[i] = "PATH"
        merged == AppendDeclared(Env, Environment, keys)
        pathSet == declared \/ \E i \in 1..Len(merged) : HasPathPrefix(merged[i])
    IN  IF ~pathSet
        THEN Append(merged, EnvEntry("PATH", ReasonableDefaultPath))
        ELSE merged

\* A merge that applies the full command first, so that a declared cmd or
\* entrypoint still overrides it.
MergeCommands_FullCommandFirst(imageConfig, l) ==
    LET c0 == IF l.FullCommand.set
              THEN [imageConfig EXCEPT !.Cmd = <<>>,
                       !.Entrypoint = ParseCommand(l.FullCommand).words]
              ELSE imageConfig
        c1 == IF l.Cmd.set
              THEN [c0 EXCEPT !.Cmd = ParseCommand(l.Cmd).words] ELSE c0
        c2 == IF l.Entrypoint.set
              THEN [c1 EXCEPT !.Entrypoint = ParseCommand(l.Entrypoint).words]
              ELSE c1
    IN  [err |-> \/ l.Cmd.set /\ ~ParseCommand(l.Cmd).ok
                 \/ l.Entrypoint.set /\ ~ParseCommand(l.Entrypoint).ok
                 \/ l.FullCommand.set /\ ~ParseCommand(l.FullCommand).ok,
         config |-> c2]

\* build.go 231-251: cmd, then entrypoint, then the full command, each
\* applied only when declared; a parse error ends doBuild.
MergeCommands(imageConfig, l) ==
    LET c1 == IF l.Cmd.set
              THEN [imageConfig EXCEPT !.Cmd = ParseCommand(l.Cmd).words]
              ELSE imageConfig
        c2 == IF l.Entrypoint.set
              THEN [c1 EXCEPT !.Entrypoint = ParseCommand(l.Entrypoint).words]
              ELSE c1
        c3 == IF l.FullCommand.set
              THEN [c2 EXCEPT !.Cmd = <<>>,
                       !.Entrypoint = ParseCommand(l.FullCommand).words]
              ELSE c2
    IN  [err |-> \/ l.Cmd.set /\ ~ParseCommand(l.Cmd).ok
                 \/ l.Entrypoint.set /\ ~ParseCommand(l.Entrypoint).ok
                 \/ l.FullCommand.set /\ ~ParseCommand(l.FullCommand).ok,
         config |-> c3]

\* The orders in which a map's keys can come out of `range`.
KeyOrders(S) ==
    {q \in SeqsUpTo(S, Cardinality(S)) :
        Len(q) = Cardinality(S) /\ \A k \in S : \E i \in 1..Len(q) : q[i] = k}

\* The environments a layer may declare.
Environments ==
    UNION {[K -> {"bar", "/opt/bin"}] : K \in SUBSET {"FOO", "PATH"}}

\* The environment entries an image may inherit.
InheritedEntries ==
    {EnvEntry("PATH", "/base/bin"), EnvEntry("FOO", "old"),
     EnvEntry("PATHS", "/x")}

DeclaredCommands(words) == {NotSet, Declared(words), Unparsable}

\* mutator.Config has returned the configuration of the repacked image and
\* the layer's declaration is at hand.
MergeInit ==
    /\ InitBuild
    /\ srcFiles = DiskWith([f \in Files |-> 0])
    /\ \E env \in SeqsUpTo(InheritedEntries, 2),
          cmd \in {<<>>, <<"base-cmd">>}, ep \in {<<>>, <<"base-entry">>},
          decl \in Environments,
          lc \in DeclaredCommands(<<"run">>),
          le \in DeclaredCommands(<<"entry">>),
          lf \in DeclaredCommands(<<"full", "command">>) :
         call = [op |-> "merge",
                 imageConfig |-> [Env |-> env, Cmd |-> cmd, Entrypoint |-> ep],
                 l |-> [Environment |-> decl, Cmd |-> lc, Entrypoint |-> le,
                        FullCommand |-> lf],
                 done |-> FALSE,
                 err |-> FALSE,
                 ret |-> [Env |-> env, Cmd |-> cmd, Entrypoint |-> ep]]

\* build.go 209-251
MergeCall ==
    /\ call.op = "merge"
    /\ ~call.done
    /\ \E keys \in KeyOrders(DOMAIN call.l.Environment) :
         LET env == MergeEnv(call.imageConfig.Env, call.l.Environment, keys)
             r == MergeCommands([call.imageConfig EXCEPT !.Env = env], call.l)
         IN  call' = [call EXCEPT !.done = TRUE, !.err = r.err,
                                  !.ret = r.config]
    /\ UNCHANGED <<srcFiles, importsDir, buildV>>

MergeNext == MergeCall

MergeSpec == MergeInit /\ [][MergeNext]_vars

\* The environment has an entry that starts with "PATH=".
HasPath(env) == \E i \in 1..Len(env) : env[i][1] = "PATH" /\ env[i][2] = "="

\* C18: after the merge the environment is the inherited one, followed by
\* one "KEY=value" entry for every declared variable, followed by the
\* default PATH entry exactly when PATH is not among the declared variables
\* and no inherited entry starts with "PATH="; it always has an entry that
\* starts with "PATH=".
C18_EnvironmentMerge ==
    (call.op = "merge" /\ call.done) =>
        LET old == call.imageConfig.Env
            decl == call.l.Environment
            n == Len(old) + Cardinality(DOMAIN decl)
            needed == "PATH" \notin DOMAIN decl /\ ~HasPath(old)
            new == call.ret.Env
        IN  /\ \A k \in DOMAIN decl :
                  \E i \in (Len(old) + 1)..n : new[i] = <<k, "=", decl[k]>>
            /\ HasPath(new)
            /\ SubSeq(new, 1, Len(old)) = old
            /\ needed => /\ Len(new) = n + 1
                         /\ new[n + 1] = <<"PATH", "=", ReasonableDefaultPath>>
            /\ ~needed => Len(new) = n

\* A layer that declares FOO=bar on an image whose only inherited entry is
\* PATHS=/x: the default PATH is appended after FOO=bar.
C18_Witness ==
    /\ call.op = "merge" /\ call.done
    /\ call.imageConfig.Env = <<EnvEntry("PATHS", "/x")>>
    /\ DOMAIN call.l.Environment = {"FOO"}
    /\ call.ret.Env = <<EnvEntry("PATHS", "/x"), EnvEntry("FOO", "bar"),
                        EnvEntry("PATH", ReasonableDefaultPath)>>

\* C19: when the merge has returned without error, a layer that declares a
\* full command has cmd cleared and entrypoint set to the words of the full
\* command, whatever was inherited and whatever cmd or entrypoint it also
\* declares; a layer that declares none has cmd and entrypoint each set to
\* what it declares, or left as inherited when it does not declare it.
C19_CommandMerge ==
    (call.op = "merge" /\ call.done /\ ~call.err) =>
        IF call.l.FullCommand.set
        THEN /\ call.ret.Cmd = <<>>
             /\ call.ret.Entrypoint = call.l.FullCommand.words
        ELSE /\ call.ret.Cmd = IF call.l.Cmd.set THEN call.l.Cmd.words
                               ELSE call.imageConfig.Cmd
             /\ call.ret.Entrypoint =
                    IF call.l.Entrypoint.set THEN call.l.Entrypoint.words
                    ELSE call.imageConfig.Entrypoint

\* A layer that declares cmd, entrypoint and a full command on an image
\* that inherits both: cmd is cleared, the entrypoint is the full command.
C19_Witness ==
    /\ call.op = "merge" /\ call.done /\ ~call.err
    /\ call.l.FullCommand.set /\ call.l.Cmd.set /\ call.l.Entrypoint.set
    /\ call.imageConfig.Cmd = <<"base-cmd">>
    /\ call.imageConfig.Entrypoint = <<"base-entry">>
    /\ call.ret.Cmd = <<>>
    /\ call.ret.Entrypoint = <<"full", "command">>

-----------------------------------------------------------------------------
(* Invocations between which a declaration is changed and changed back *)

\* The stackerfiles of these invocations: the run commands of A come in
\* several versions, no layer is build-only.
RevertStackerfiles ==
    { [n \in Layers |-> Layer(n, IF n = "A" THEN rv ELSE 0, FALSE)] :
        rv \in RunVersions }

\* One more invocation than Spec allows, on the same imported file and
\* without flags.
StartRevertBuild == Start(MaxRevertBuilds, RevertStackerfiles, {0}, {NoFlags})

RevertNext ==
    \/ StartRevertBuild
    \/ NewStackerfile
    \/ NewStorage
    \/ DependencyOrder
    \/ OpenLayout
    \/ OpenCache
    \/ ImportStep
    \/ LookupStep
    \/ CacheHit
    \/ Prepare
    \/ GetBaseLayer
    \/ Run
    \/ Repack
    \/ Mutate
    \/ Commit
    \/ UpdateReference
    \/ RenameBundleMtree
    \/ WriteBundleMeta
    \/ Snapshot
    \/ LookupManifestDescriptor
    \/ PutStep
    \/ Return
    \/ Interrupt

RevertSpec == Init /\ [][RevertNext]_vars

\* Every invocation so far has returned nil.
AllSucceeded == pc = "idle" /\ builds > 0 /\ failures = 0 /\ prev.result = "ok"

\* C20: when every invocation so far has succeeded, each layer that is not
\* build-only has a snapshot under its name, and that snapshot is the
\* filesystem state that was committed as the descriptor the layer's
\* reference points to: its content is the descriptor's, and its bundle
\* metadata names that descriptor.
C20_SnapshotMatchesReference ==
    AllSucceeded =>
        \A n \in Layers :
            ~prev.sf[n].BuildOnly =>
                /\ trees[n].exists
                /\ refs[n].kind = "commit"
                /\ trees[n].fs = refs[n].fs
                /\ trees[n].meta = refs[n]

====
